---- MODULE Spec2Model ----
(***************************************************************************)
(* FileBuddy (Source/fb.py): a model of one run of the command line tool   *)
(* (pre-flight validation, os.walk traversal, the seven command handlers)  *)
(* and of its pure helper functions.                                       *)
(*                                                                         *)
(* Python strings are sequences of one-character strings.  A filesystem    *)
(* is a function from canonical absolute paths (sequences of names) to     *)
(* nodes; path strings handed to the OS are resolved against the process'  *)
(* working directory.                                                      *)
(***************************************************************************)
EXTENDS Integers, Sequences, FiniteSets, TLC

VARIABLES
    args,             \* parsed command line (argparse namespace)
    fs0,              \* the filesystem when the process started
    fs,               \* the filesystem now
    cwd,              \* working directory of the process (canonical path)
    pc,               \* position of main()
    output_file,      \* TRUE once open(output_file, 'w') has succeeded
    spinning,         \* Spinner.running
    stack,            \* pending work of the os.walk generator
    cur,              \* the WalkEntry being processed: raw root, fixed root, dirs, files
    pos,              \* index of the next element of cur.dirs / cur.files
    pass,             \* 1 = first os.walk loop of the handler, 2 = second (size only)
    results,          \* the handler's counters
    results_names,    \* search: list of matched names
    results_contents, \* search: full_path -> hits
    results_sizes,    \* size: key -> bytes
    out,              \* every line written by print_output/print_info/print_error
    walked,           \* every WalkEntry os.walk yielded: pass, fixed root, body run or skipped
    last,             \* outcome of the latest rename/delete/move_item call
    fn_in,            \* input of the pure function under test
    fn_out,           \* its result
    thread,           \* Spinner.thread: where the thread running _spin stands
    spin_idx,         \* idx of _spin, kept modulo len(chars)
    term,             \* the terminal: finished lines, current line, who wrote them
    hist              \* what happened between the two threads so far

vars == <<args, fs0, fs, cwd, pc, output_file, spinning, stack, cur, pos, pass,
          results, results_names, results_contents, results_sizes, out, walked,
          last, fn_in, fn_out, thread, spin_idx, term, hist>>

spinvars == <<thread, spin_idx, term, hist>>

runvars == <<args, fs0, fs, cwd, pc, output_file, spinning, stack, cur, pos, pass,
             results, results_names, results_contents, results_sizes, out, walked,
             last>>

(***************************************************************************)
(* Strings                                                                 *)
(***************************************************************************)
Digits == <<"0", "1", "2", "3", "4", "5", "6", "7", "8", "9">>

IsDigit(c) == \E d \in 1..10 : Digits[d] = c

DigitVal(c) == (CHOOSE d \in 1..10 : Digits[d] = c) - 1

\* int(s) for a non-empty string of decimal digits
RECURSIVE ToInt(_)
ToInt(s) ==
    IF s = <<>> THEN 0
    ELSE 10 * ToInt(SubSeq(s, 1, Len(s) - 1)) + DigitVal(s[Len(s)])

\* s[i:] of Python, i counted from 1
From(s, i) == SubSeq(s, i, Len(s))

startswith(s, prefix) ==
    /\ Len(prefix) <= Len(s)
    /\ SubSeq(s, 1, Len(prefix)) = prefix

endswith(s, suffix) ==
    /\ Len(suffix) <= Len(s)
    /\ SubSeq(s, Len(s) - Len(suffix) + 1, Len(s)) = suffix

\* first index at which sub occurs in s, 0 when it does not (str.find + 1)
Find(sub, s) ==
    LET hits == {i \in 1..(Len(s) - Len(sub) + 1) : SubSeq(s, i, i + Len(sub) - 1) = sub}
    IN  IF hits = {} THEN 0 ELSE CHOOSE i \in hits : \A j \in hits : i <= j

\* the Python expression  sub in s
Contains(sub, s) == Find(sub, s) # 0

\* str.replace(old, new): every non-overlapping occurrence, left to right, one pass
RECURSIVE Replace(_, _, _)
Replace(s, old, new) ==
    IF Len(s) < Len(old) THEN s
    ELSE IF SubSeq(s, 1, Len(old)) = old
         THEN new \o Replace(From(s, Len(old) + 1), old, new)
         ELSE <<s[1]>> \o Replace(From(s, 2), old, new)

RECURSIVE Concat(_)
Concat(ss) == IF ss = <<>> THEN <<>> ELSE ss[1] \o Concat(Tail(ss))

\* str.split('/')
RECURSIVE Split(_)
Split(s) ==
    LET i == Find(<<"/">>, s)
    IN  IF i = 0 THEN <<s>> ELSE <<SubSeq(s, 1, i - 1)>> \o Split(From(s, i + 1))

(***************************************************************************)
(* fix_path, regex_sub                                                     *)
(***************************************************************************)
fix_path(path) == Replace(Replace(path, <<"\\">>, <<"/">>), <<"/", "/">>, <<"/">>)

\* A match object is the sequence of its groups, group 0 first; a group is
\* [p |-> TRUE, s |-> text] or, when it did not participate, [p |-> FALSE, s |-> <<>>].
Grp(s) == [p |-> TRUE, s |-> s]
NoGrp == [p |-> FALSE, s |-> <<>>]

\* match_obj.group(idx): IndexError when there is no such group, None when the
\* group did not participate
MatchGroup(match_obj, k) ==
    IF k + 1 > Len(match_obj) THEN [err |-> "IndexError", none |-> FALSE, s |-> <<>>]
    ELSE [err |-> "", none |-> ~match_obj[k + 1].p, s |-> match_obj[k + 1].s]

\* sys.int_info.default_max_str_digits: CPython 3.11 (and 3.10.7, 3.9.14, 3.8.14,
\* 3.7.14) refuses to convert a longer string of digits
INT_MAX_STR_DIGITS == 4300

\* sys.get_int_max_str_digits() of the interpreter that runs the program: the
\* default, or 0 (no limit) on an older build or with PYTHONINTMAXSTRDIGITS=0
MaxStrDigitsSettings == {0, INT_MAX_STR_DIGITS}

\* digits without its leading zeros
Significant(digits) ==
    LET first == CHOOSE j \in 1..(Len(digits) + 1) :
                     /\ j > Len(digits) \/ digits[j] # "0"
                     /\ \A k \in 1..(j - 1) : digits[k] = "0"
    IN  From(digits, first)

\* int(digits): ValueError beyond the limit; a value of ten digits or more is
\* kept as 10^9, which is beyond the groups of any pattern
int_of(digits, max_str_digits) ==
    IF max_str_digits > 0 /\ Len(digits) > max_str_digits
    THEN [err |-> "ValueError", v |-> 0]
    ELSE [err |-> "",
          v |-> IF Len(Significant(digits)) > 9 THEN 10^9 ELSE ToInt(Significant(digits))]

\* the callback of re.sub: only IndexError is caught; re.sub treats a None
\* result as the empty string
group_replacer(match_obj, digits, max_str_digits) ==
    LET idx_ == int_of(digits, max_str_digits)
        g == MatchGroup(match_obj, idx_.v)
    IN  IF idx_.err # "" THEN [raised |-> TRUE, s |-> <<>>]
        ELSE IF g.err = "IndexError" THEN [raised |-> FALSE, s |-> <<>>]
        ELSE [raised |-> FALSE, s |-> IF g.none THEN <<>> ELSE g.s]

\* length of the run of digits of text starting at index i
DigitRun(text, i) ==
    LET stop == CHOOSE j \in i..(Len(text) + 1) :
                    /\ j > Len(text) \/ ~IsDigit(text[j])
                    /\ \A k \in i..(j - 1) : IsDigit(text[k])
    IN  stop - i

\* index of the ')' closing a token \$\((\d+)\) that starts at i, 0 if none starts there
TokenEnd(text, i) ==
    LET n == DigitRun(text, i + 2)
    IN  IF /\ i + 3 <= Len(text)
           /\ text[i] = "$"
           /\ text[i + 1] = "("
           /\ n >= 1
           /\ i + 2 + n <= Len(text)
           /\ text[i + 2 + n] = ")"
        THEN i + 2 + n ELSE 0

\* re.sub(r'\$\((\d+)\)', group_replacer, text): scan from index i
RECURSIVE SubFrom(_, _, _, _)
SubFrom(match_obj, text, i, max_str_digits) ==
    IF i > Len(text) THEN [raised |-> FALSE, s |-> <<>>]
    ELSE LET j == TokenEnd(text, i)
         IN  IF j = 0
             THEN LET r == SubFrom(match_obj, text, i + 1, max_str_digits)
                  IN  [raised |-> r.raised, s |-> <<text[i]>> \o r.s]
             ELSE LET g == group_replacer(match_obj, SubSeq(text, i + 2, j - 1),
                                          max_str_digits)
                      r == SubFrom(match_obj, text, j + 1, max_str_digits)
                  IN  [raised |-> g.raised \/ r.raised, s |-> g.s \o r.s]

regex_sub(match_obj, text, max_str_digits) == SubFrom(match_obj, text, 1, max_str_digits)

(***************************************************************************)
(* re.compile / re.search for the patterns of the model: literal text in   *)
(* which capture parentheses may be placed                                 *)
(***************************************************************************)
\* nesting depth after the first n characters of pattern; -1 once a ')' closed nothing
RECURSIVE Depth(_, _)
Depth(pattern, n) ==
    IF n = 0 THEN 0
    ELSE LET d == Depth(pattern, n - 1)
         IN  IF d < 0 THEN d
             ELSE IF pattern[n] = "(" THEN d + 1
             ELSE IF pattern[n] = ")" THEN d - 1
             ELSE d

\* re.compile(pattern) does not raise re.error
re_compile(pattern) ==
    /\ \A n \in 1..Len(pattern) : Depth(pattern, n) >= 0
    /\ Depth(pattern, Len(pattern)) = 0

RECURSIVE StripParens(_)
StripParens(pattern) ==
    IF pattern = <<>> THEN <<>>
    ELSE IF pattern[1] \in {"(", ")"} THEN StripParens(Tail(pattern))
    ELSE <<pattern[1]>> \o StripParens(Tail(pattern))

\* the text of every capture group of pattern, in the order of the opening parentheses
GroupTexts(pattern) ==
    LET opens == {i \in 1..Len(pattern) : pattern[i] = "("}
        close(i) == CHOOSE j \in (i + 1)..Len(pattern) :
                        /\ Depth(pattern, j) = Depth(pattern, i) - 1
                        /\ \A m \in (i + 1)..(j - 1) : Depth(pattern, m) >= Depth(pattern, i)
        RECURSIVE Build(_)
        Build(S) ==
            IF S = {} THEN <<>>
            ELSE LET i == CHOOSE x \in S : \A y \in S : x <= y
                 IN  <<Grp(StripParens(SubSeq(pattern, i + 1, close(i) - 1)))>> \o Build(S \ {i})
    IN  Build(opens)

\* re.search(pattern, text): the match object (its groups), <<>> for None
re_search(pattern, text) ==
    IF Contains(StripParens(pattern), text)
    THEN <<Grp(StripParens(pattern))>> \o GroupTexts(pattern)
    ELSE <<>>

(***************************************************************************)
(* The filesystem                                                          *)
(***************************************************************************)
DirNode == [kind |-> "dir", size |-> 0, lines |-> <<>>]
FileNode(size, lines) == [kind |-> "file", size |-> size, lines |-> lines]

Exists(f, p) == p \in DOMAIN f
IsDir(f, p) == p \in DOMAIN f /\ f[p].kind = "dir"
IsFile(f, p) == p \in DOMAIN f /\ f[p].kind = "file"

Parent(p) == SubSeq(p, 1, Len(p) - 1)
IsPrefix(p, q) == Len(p) <= Len(q) /\ SubSeq(q, 1, Len(p)) = p

ChildNames(f, p) == {q[Len(q)] : q \in {r \in DOMAIN f : Len(r) = Len(p) + 1 /\ IsPrefix(p, r)}}

\* the tree below p, p included, removed
Without(f, p) == [q \in {r \in DOMAIN f : ~IsPrefix(p, r)} |-> f[q]]

\* f with node n at p
With(f, p, n) == [q \in DOMAIN f \cup {p} |-> IF q = p THEN n ELSE f[q]]

\* the tree at src taken away and put at dst (whatever was at dst is replaced)
Regraft(f, src, dst) ==
    LET rest == Without(Without(f, dst), src)
        moved == {r \in DOMAIN f : IsPrefix(src, r)}
        to(r) == dst \o SubSeq(r, Len(src) + 1, Len(r))
    IN  [q \in DOMAIN rest \cup {to(r) : r \in moved} |->
            IF \E r \in moved : to(r) = q
            THEN f[CHOOSE r \in moved : to(r) = q]
            ELSE rest[q]]

\* the segments of a path string that name something: '' and '.' name nothing
RECURSIVE Segments(_)
Segments(ss) ==
    IF ss = <<>> THEN <<>>
    ELSE IF ss[1] = <<>> \/ ss[1] = <<".">> THEN Segments(Tail(ss))
    ELSE <<ss[1]>> \o Segments(Tail(ss))

\* the canonical path a path string names in a process whose working directory is c
Resolve(c, s) ==
    IF s # <<>> /\ s[1] = "/" THEN Segments(Split(s)) ELSE c \o Segments(Split(s))

\* os.path.join(top, name)
join(top, name) ==
    IF top = <<>> \/ endswith(top, <<"/">>) THEN top \o name ELSE top \o <<"/">> \o name

\* f'{root}/{name}'
Slash(root, name) == root \o <<"/">> \o name

\* os.scandir lists a directory in an order of the filesystem's choosing; the
\* model lists by name
Alphabet == <<".", "$", "(", ")", "/", "\\", "0", "1", "2", "9", "a", "b", "c", "d",
              "h", "k", "n", "o", "t", "w", "x">>

CharRank(c) == CHOOSE i \in 1..Len(Alphabet) : Alphabet[i] = c

RECURSIVE LexLeq(_, _)
LexLeq(s, t) ==
    IF s = <<>> THEN TRUE
    ELSE IF t = <<>> THEN FALSE
    ELSE IF s[1] = t[1] THEN LexLeq(Tail(s), Tail(t))
    ELSE CharRank(s[1]) < CharRank(t[1])

RECURSIVE Sorted(_)
Sorted(S) ==
    IF S = {} THEN <<>>
    ELSE LET m == CHOOSE x \in S : \A y \in S : LexLeq(x, y)
         IN  <<m>> \o Sorted(S \ {m})

\* the (dirs, nondirs) lists os.walk builds from os.scandir(top)
scandir_dirs(f, p) == Sorted({n \in ChildNames(f, p) : IsDir(f, p \o <<n>>)})
scandir_files(f, p) == Sorted({n \in ChildNames(f, p) : IsFile(f, p \o <<n>>)})

(***************************************************************************)
(* The library calls that change the filesystem.  Each yields a record     *)
(* [st, fs]: st is "ok", "Error" (shutil.Error was raised) or "OSError"    *)
(* (some other OSError was raised), fs the filesystem left behind.         *)
(***************************************************************************)
Res(st, f) == [st |-> st, fs |-> f]

\* open(name, 'w'): creates or truncates the file
open_w(f, p) ==
    IF p # <<>> /\ IsDir(f, Parent(p)) /\ ~IsDir(f, p)
    THEN Res("ok", With(f, p, FileNode(0, <<>>)))
    ELSE Res("OSError", f)

\* os.rename(src, dst).  POSIX replaces an existing file by a file and an empty
\* directory by a directory; Windows refuses every existing destination.
os_rename(f, src, dst, posix) ==
    IF \/ ~Exists(f, src)
       \/ dst = <<>>
       \/ ~IsDir(f, Parent(dst))
       \/ (IsPrefix(src, dst) /\ src # dst)
    THEN Res("OSError", f)
    ELSE IF src = dst THEN Res("ok", f)
    ELSE IF ~Exists(f, dst) THEN Res("ok", Regraft(f, src, dst))
    ELSE IF /\ posix
            /\ f[src].kind = f[dst].kind
            /\ ChildNames(f, dst) = {}
         THEN Res("ok", Regraft(f, src, dst))
         ELSE Res("OSError", f)

\* shutil.copy2(src, dst)
shutil_copy2(f, src, dst0) ==
    LET dst == IF IsDir(f, dst0) THEN dst0 \o <<src[Len(src)]>> ELSE dst0
    IN  IF src = dst /\ Exists(f, src) THEN Res("Error", f)
        ELSE IF ~IsFile(f, src) \/ IsDir(f, dst) \/ dst = <<>> \/ ~IsDir(f, Parent(dst))
        THEN Res("OSError", f)
        ELSE Res("ok", With(f, dst, f[src]))

\* os.makedirs(p, exist_ok=True)
RECURSIVE makedirs(_, _)
makedirs(f, p) ==
    IF IsDir(f, p) THEN Res("ok", f)
    ELSE IF Exists(f, p) \/ p = <<>> THEN Res("OSError", f)
    ELSE LET up == makedirs(f, Parent(p))
         IN  IF up.st = "ok" THEN Res("ok", With(up.fs, p, DirNode)) ELSE up

\* shutil.copytree(src, dst, dirs_exist_ok=True): the entries of src are listed
\* before dst is made; a failed entry is remembered and shutil.Error raised at the end
RECURSIVE shutil_copytree(_, _, _)
RECURSIVE CopyEntries(_, _, _, _, _)
CopyEntries(f, src, dst, entries, failed) ==
    IF entries = <<>> THEN Res(IF failed THEN "Error" ELSE "ok", f)
    ELSE LET n == entries[1]
             r == IF n.dir THEN shutil_copytree(f, src \o <<n.name>>, dst \o <<n.name>>)
                  ELSE shutil_copy2(f, src \o <<n.name>>, dst \o <<n.name>>)
         IN  CopyEntries(r.fs, src, dst, Tail(entries), failed \/ r.st # "ok")

shutil_copytree(f, src, dst) ==
    IF ~IsDir(f, src) THEN Res("OSError", f)
    ELSE LET names == Sorted(ChildNames(f, src))
             entries == [i \in 1..Len(names) |->
                            [name |-> names[i], dir |-> IsDir(f, src \o <<names[i]>>)]]
             made == makedirs(f, dst)
         IN  IF made.st # "ok" THEN made
             ELSE CopyEntries(made.fs, src, dst, entries, FALSE)

\* shutil.move(src, dst)
shutil_move(f, src, dst, posix) ==
    IF IsDir(f, dst) /\ src = dst THEN Res("ok", f)
    ELSE IF IsDir(f, dst) /\ src # <<>> /\ Exists(f, dst \o <<src[Len(src)]>>)
    THEN Res("Error", f)
    ELSE LET real_dst == IF IsDir(f, dst) /\ src # <<>> THEN dst \o <<src[Len(src)]>> ELSE dst
             renamed == os_rename(f, src, real_dst, posix)
         IN  IF renamed.st = "ok" THEN renamed
             ELSE IF IsDir(f, src)
             THEN IF IsPrefix(src, dst) THEN Res("Error", f)
                  ELSE LET copied == shutil_copytree(f, src, real_dst)
                       IN  IF copied.st = "ok" THEN Res("ok", Without(copied.fs, src))
                           ELSE copied
             ELSE LET copied == shutil_copy2(f, src, real_dst)
                  IN  IF copied.st = "ok" THEN Res("ok", Without(copied.fs, src))
                      ELSE copied

(***************************************************************************)
(* Command lines and trees the runs start from                             *)
(***************************************************************************)
MaxDepth == 2      \* the tree nests MaxDepth directories named d
MaxOptions == 2    \* at most this many positional options are given

CMD_SEARCH == "search"
CMD_LIST == "list"
CMD_SIZE == "size"
CMD_RENAME == "rename"
CMD_DELETE == "delete"
CMD_COPY == "copy"
CMD_MOVE == "move"
COMMANDS == {CMD_SEARCH, CMD_LIST, CMD_SIZE, CMD_RENAME, CMD_DELETE, CMD_COPY, CMD_MOVE}

\* d/d/.../d, k times, below w
RECURSIVE Chain(_)
Chain(k) == IF k = 0 THEN <<<<"w">>>> ELSE Chain(k - 1) \o <<<<"d">>>>

At(p, n) == [p |-> p, n |-> n]

TreeEntries ==
    {At(<<>>, DirNode), At(Chain(0), DirNode),
     At(Chain(0) \o <<<<"a">>>>, FileNode(100, <<<<"a">>>>)),
     At(Chain(1) \o <<<<"b", "a">>>>, FileNode(3, <<<<"b">>>>)),
     At(Chain(0) \o <<<<".", "h">>>>, DirNode),
     At(Chain(0) \o <<<<".", "h">>, <<"a">>>>, FileNode(7, <<<<"a">>>>)),
     At(Chain(0) \o <<<<".", "h">>, <<"d">>>>, DirNode),
     At(Chain(0) \o <<<<"a", "d">>>>, DirNode),
     At(Chain(0) \o <<<<"a", "d">>, <<".", "k">>>>, FileNode(5, <<>>)),
     At(Chain(0) \o <<<<"a", "d">>, <<"a">>>>, FileNode(20, <<<<"b">>>>)),
     At(Chain(0) \o <<<<"t">>>>, DirNode),
     At(<<<<"v">>>>, DirNode),
     At(<<<<"v">>, <<"a", "d">>>>, DirNode),
     At(<<<<"v">>, <<"a", "d">>, <<"a">>>>, FileNode(8, <<<<"b">>>>))}
    \cup {At(Chain(k), DirNode) : k \in 1..MaxDepth}
    \cup {At(Chain(k) \o <<<<"a">>>>, FileNode(50, <<<<"b">>, <<"b", "a">>>>)) : k \in 1..MaxDepth}

MkFs(S) == [q \in {e.p : e \in S} |-> (CHOOSE e \in S : e.p = q).n]

Tree == MkFs(TreeEntries)

\* -d: the default, an absolute path with a trailing slash, a relative name,
\* a name that does not exist, a hidden directory, a directory whose one
\* entry is a directory
Directories ==
    {<<".">>, <<"/", "w", "/">>, <<"d">>, <<"x">>, <<"/", "w", "/", ".", "h">>,
     <<"/", "v">>}

\* -p: absent, a literal, a malformed expression
Patterns == {<<>>, <<"a">>, <<"(">>}

\* -o: absent, a file of the directory, a file of a directory that does not exist
Outputs == {<<>>, <<"o">>, <<"n", "/", "o">>}

\* the positional option a command may be given
OptionValues(command) ==
    IF command = CMD_SEARCH THEN {<<"a">>, <<"(">>}
    ELSE IF command = CMD_RENAME THEN {<<"c">>}
    ELSE IF command \in {CMD_COPY, CMD_MOVE} THEN {<<"t">>, <<"n", "/", "x">>}
    ELSE {<<"t">>}

OptionLists(command) ==
    {<<>>} \cup {[i \in 1..n |-> v] : n \in 1..MaxOptions, v \in OptionValues(command)}

ArgSets ==
    {a \in [command : COMMANDS, options : UNION {OptionLists(c) : c \in COMMANDS},
            pattern : Patterns, directory : Directories, output : Outputs,
            recursive : BOOLEAN, hidden : BOOLEAN, verbose : BOOLEAN] :
        a.options \in OptionLists(a.command)}

NoEntry == [raw |-> <<>>, root |-> <<>>, dirs |-> <<>>, files |-> <<>>]
NoResults == [directories |-> 0, files |-> 0, count |-> 0, rootSize |-> 0]
NoLast == [op |-> "", name |-> <<>>, is_dir |-> FALSE, from |-> <<>>, to |-> <<>>,
           st |-> "", counted |-> FALSE, existed |-> FALSE, into |-> FALSE]
EmptyMap == [k \in {} |-> 0]

\* Spinner.__init__: no thread; nothing on the terminal
NoTerm == [lines |-> <<>>, line |-> <<>>]
NoHist == [frame_in_print_safe |-> FALSE, frame_after_stop |-> FALSE, prints |-> 0]

IdleSpinner ==
    /\ thread = "none"
    /\ spin_idx = 0
    /\ term = NoTerm
    /\ hist = NoHist

Init ==
    /\ args \in ArgSets
    /\ fs0 = Tree
    /\ fs = Tree
    /\ cwd = Chain(0)
    /\ pc = "pattern"
    /\ output_file = FALSE
    /\ spinning = FALSE
    /\ stack = <<>>
    /\ cur = NoEntry
    /\ pos = 0
    /\ pass = 1
    /\ results = NoResults
    /\ results_names = <<>>
    /\ results_contents = EmptyMap
    /\ results_sizes = EmptyMap
    /\ out = <<>>
    /\ walked = <<>>
    /\ last = NoLast
    /\ fn_in = <<>>
    /\ fn_out = <<>>
    /\ IdleSpinner

(***************************************************************************)
(* main(): validation                                                      *)
(***************************************************************************)
\* sys.exit(1) after the diagnostic
Exit1 == pc' = "exit"

\* lines 186-194: the name pattern must compile
CheckPattern ==
    /\ pc = "pattern"
    /\ IF args.pattern # <<>> /\ ~re_compile(args.pattern) THEN Exit1 ELSE pc' = "directory"
    /\ UNCHANGED <<args, fs0, fs, cwd, output_file, spinning, stack, cur, pos, pass,
                   results, results_names, results_contents, results_sizes, out,
                   walked, last, fn_in, fn_out, spinvars>>

\* lines 196-203: os.path.isdir(directory), then os.chdir(directory)
CheckDirectory ==
    /\ pc = "directory"
    /\ IF IsDir(fs, Resolve(cwd, args.directory))
       THEN /\ cwd' = Resolve(cwd, args.directory)
            /\ pc' = "output"
       ELSE /\ Exit1
            /\ cwd' = cwd
    /\ UNCHANGED <<args, fs0, fs, output_file, spinning, stack, cur, pos, pass,
                   results, results_names, results_contents, results_sizes, out,
                   walked, last, fn_in, fn_out, spinvars>>

\* lines 210-219: open(output_file, 'w')
OpenOutput ==
    /\ pc = "output"
    /\ IF args.output = <<>>
       THEN /\ pc' = "spinner"
            /\ UNCHANGED <<fs, output_file>>
       ELSE LET opened == open_w(fs, Resolve(cwd, args.output))
            IN  IF opened.st = "ok"
                THEN /\ fs' = opened.fs
                     /\ output_file' = TRUE
                     /\ pc' = "spinner"
                ELSE /\ Exit1
                     /\ UNCHANGED <<fs, output_file>>
    /\ UNCHANGED <<args, fs0, cwd, spinning, stack, cur, pos, pass,
                   results, results_names, results_contents, results_sizes, out,
                   walked, last, fn_in, fn_out, spinvars>>

\* lines 240-243: spinner.start()
SpinnerStart ==
    /\ pc = "spinner"
    /\ spinning' = TRUE
    /\ pc' = "options"
    /\ UNCHANGED <<args, fs0, fs, cwd, output_file, stack, cur, pos, pass,
                   results, results_names, results_contents, results_sizes, out,
                   walked, last, fn_in, fn_out, spinvars>>

\* the number of positional options the command takes
OptionsWanted(command) ==
    IF command \in {CMD_SEARCH, CMD_RENAME, CMD_COPY, CMD_MOVE} THEN 1 ELSE 0

\* the checks each branch of main makes before its os.walk loop (lines 301-316,
\* 402-404, 465-467, 554-565, 609-615, 673-684, 742-753)
OptionsAccepted ==
    /\ Len(args.options) = OptionsWanted(args.command)
    /\ args.command = CMD_SEARCH => re_compile(args.options[1])
    /\ args.command \in {CMD_RENAME, CMD_DELETE, CMD_COPY, CMD_MOVE} => args.pattern # <<>>

PathItem(s) == [t |-> "path", s |-> s, dirs |-> <<>>, files |-> <<>>]
EntryItem(s, dirs, files) == [t |-> "entry", s |-> s, dirs |-> dirs, files |-> files]

CheckOptions ==
    /\ pc = "options"
    /\ IF OptionsAccepted
       THEN /\ pc' = "walk"
            /\ stack' = <<PathItem(args.directory)>>
       ELSE /\ Exit1
            /\ stack' = stack
    /\ UNCHANGED <<args, fs0, fs, cwd, output_file, spinning, cur, pos, pass,
                   results, results_names, results_contents, results_sizes, out,
                   walked, last, fn_in, fn_out, spinvars>>

(***************************************************************************)
(* os.walk and the loop around it                                          *)
(***************************************************************************)
\* every loop is os.walk(directory) but the first of size, which is bottom-up
topdown == ~(args.command = CMD_SIZE /\ pass = 1)

\* the sub-directories of top still to be walked, in the order of dirs
PushChildren(rest, top, dirs) ==
    [i \in 1..Len(dirs) |-> PathItem(join(top, dirs[i]))] \o rest

\* if not hidden and '/.' in root: continue
HiddenRoot(root) == ~args.hidden /\ Contains(<<"/", ".">>, root)

\* the check on the name left out
HiddenName_Off(name) == FALSE

\* if not hidden and name.startswith('.')
HiddenName(name) == ~args.hidden /\ startswith(name, <<".">>)

\* search walks the directory names only when a name pattern is given
LoopsDirs == ~(args.command = CMD_SEARCH /\ args.pattern = <<>>)

FirstPhase(dirs, files) ==
    IF LoopsDirs /\ dirs # <<>> THEN "dirs"
    ELSE IF files # <<>> THEN "files"
    ELSE "end"

\* on to the next name of the list, the next list, or the end of the loop body
Advance ==
    IF pc = "dirs" /\ pos < Len(cur.dirs) THEN pc' = "dirs" /\ pos' = pos + 1
    ELSE IF pc = "files" /\ pos < Len(cur.files) THEN pc' = "files" /\ pos' = pos + 1
    ELSE IF pc = "dirs" /\ cur.files # <<>> THEN pc' = "files" /\ pos' = 1
    ELSE pc' = "end" /\ pos' = 0

Line(k, root, name, to, n) == [k |-> k, root |-> root, name |-> name, to |-> to, n |-> n]

\* print_info and print_error write only in verbose mode
print_info(line) == IF args.verbose THEN <<line>> ELSE <<>>
print_error(line) == IF args.verbose THEN <<line>> ELSE <<>>

Get(m, k) == IF k \in DOMAIN m THEN m[k] ELSE 0
Put(m, k, v) == [x \in DOMAIN m \cup {k} |-> IF x = k THEN v ELSE m[x]]

\* os.scandir(top) fails (the directory is gone, or never was one): os.walk goes on
WalkSkip ==
    /\ pc = "walk"
    /\ stack # <<>>
    /\ stack[1].t = "path"
    /\ ~IsDir(fs, Resolve(cwd, stack[1].s))
    /\ stack' = Tail(stack)
    /\ UNCHANGED <<args, fs0, fs, cwd, pc, output_file, spinning, cur, pos, pass,
                   results, results_names, results_contents, results_sizes, out,
                   walked, last, fn_in, fn_out, spinvars>>

\* bottom-up: the sub-directories are walked before top is yielded
WalkDescend ==
    /\ pc = "walk"
    /\ stack # <<>>
    /\ stack[1].t = "path"
    /\ IsDir(fs, Resolve(cwd, stack[1].s))
    /\ ~topdown
    /\ LET top == stack[1].s
           dirs == scandir_dirs(fs, Resolve(cwd, top))
           files == scandir_files(fs, Resolve(cwd, top))
       IN  stack' = PushChildren(<<EntryItem(top, dirs, files)>> \o Tail(stack), top, dirs)
    /\ UNCHANGED <<args, fs0, fs, cwd, pc, output_file, spinning, cur, pos, pass,
                   results, results_names, results_contents, results_sizes, out,
                   walked, last, fn_in, fn_out, spinvars>>

\* os.walk yields (root, dirs, files) and the loop body starts: the root is
\* fixed, a hidden root skipped (lines 322-333, 409-415, 471-479, 511-517,
\* 570-574, 620-624, 688-692, 757-761)
WalkYield ==
    /\ pc = "walk"
    /\ stack # <<>>
    /\ \/ stack[1].t = "entry"
       \/ stack[1].t = "path" /\ IsDir(fs, Resolve(cwd, stack[1].s)) /\ topdown
    /\ LET top == stack[1].s
           listed == stack[1].t = "entry"
           dirs == IF listed THEN stack[1].dirs ELSE scandir_dirs(fs, Resolve(cwd, top))
           files == IF listed THEN stack[1].files ELSE scandir_files(fs, Resolve(cwd, top))
           root == fix_path(top)
       IN  /\ walked' = Append(walked, [pass |-> pass, raw |-> top, root |-> root,
                                        body |-> ~HiddenRoot(root)])
           /\ IF HiddenRoot(root)
              THEN /\ stack' = IF topdown THEN PushChildren(Tail(stack), top, dirs)
                               ELSE Tail(stack)
                   /\ UNCHANGED <<pc, cur, pos, results, out>>
              ELSE /\ stack' = Tail(stack)
                   /\ cur' = [raw |-> top, root |-> root, dirs |-> dirs, files |-> files]
                   /\ pc' = FirstPhase(dirs, files)
                   /\ pos' = IF FirstPhase(dirs, files) = "end" THEN 0 ELSE 1
                   /\ results' = [results EXCEPT
                          !.count = IF args.command = CMD_SEARCH THEN @ + 1 ELSE @,
                          !.rootSize = 0]
                   /\ out' = IF args.command = CMD_SEARCH
                             THEN out \o print_info(Line("info", root, <<>>, <<>>, 0))
                             ELSE out
    /\ UNCHANGED <<args, fs0, fs, cwd, output_file, spinning, pass,
                   results_names, results_contents, results_sizes, last, fn_in, fn_out, spinvars>>

\* os.walk is exhausted: size starts its second loop, the others leave the branch
WalkDone ==
    /\ pc = "walk"
    /\ stack = <<>>
    /\ IF args.command = CMD_SIZE /\ pass = 1
       THEN /\ pass' = 2
            /\ stack' = <<PathItem(args.directory)>>
            /\ pc' = pc
       ELSE /\ pc' = "stop"
            /\ UNCHANGED <<pass, stack>>
    /\ UNCHANGED <<args, fs0, fs, cwd, output_file, spinning, cur, pos,
                   results, results_names, results_contents, results_sizes, out,
                   walked, last, fn_in, fn_out, spinvars>>

\* the loop body without its break
EndEntry_NoBreak ==
    /\ pc = "end"
    /\ topdown
    /\ pc' = "walk"
    /\ stack' = PushChildren(stack, cur.raw, cur.dirs)
    /\ UNCHANGED <<args, fs0, fs, cwd, output_file, spinning, cur, pos, pass,
                   results, results_names, results_contents, results_sizes, out,
                   walked, last, fn_in, fn_out, spinvars>>

\* the end of a loop body: if not recursive: break; otherwise os.walk resumes
\* and descends into the names of dirs
EndEntry ==
    /\ pc = "end"
    /\ topdown
    /\ IF ~args.recursive
       THEN /\ pc' = "stop"
            /\ stack' = <<>>
       ELSE /\ pc' = "walk"
            /\ stack' = PushChildren(stack, cur.raw, cur.dirs)
    /\ UNCHANGED <<args, fs0, fs, cwd, output_file, spinning, cur, pos, pass,
                   results, results_names, results_contents, results_sizes, out,
                   walked, last, fn_in, fn_out, spinvars>>

\* lines 803-811: spinner.stop(), the elapsed time
SpinnerStop ==
    /\ pc = "stop"
    /\ spinning' = FALSE
    /\ pc' = "summary"
    /\ UNCHANGED <<args, fs0, fs, cwd, output_file, stack, cur, pos, pass,
                   results, results_names, results_contents, results_sizes, out,
                   walked, last, fn_in, fn_out, spinvars>>

\* lines 813-819: the tables are printed, the output file closed
PrintSummary ==
    /\ pc = "summary"
    /\ pc' = "done"
    /\ output_file' = FALSE
    /\ UNCHANGED <<args, fs0, fs, cwd, spinning, stack, cur, pos, pass,
                   results, results_names, results_contents, results_sizes, out,
                   walked, last, fn_in, fn_out, spinvars>>

(***************************************************************************)
(* search, list, size                                                      *)
(***************************************************************************)
RECURSIVE SumOf(_, _)
SumOf(m, S) ==
    IF S = {} THEN 0
    ELSE LET k == CHOOSE x \in S : TRUE IN m[k] + SumOf(m, S \ {k})

\* the 1-based numbers of the lines of a file the content pattern is found in
HitLines(contentPattern, lines) ==
    {i \in 1..Len(lines) : re_search(contentPattern, lines[i]) # <<>>}

\* the "hit" lines print_output writes for one file, in line order
HitOutput(root, name, lines, hitSet) ==
    LET RECURSIVE From1(_)
        From1(i) ==
            IF i > Len(lines) THEN <<>>
            ELSE (IF i \in hitSet THEN <<Line("hit", root, name, <<>>, i)>> ELSE <<>>)
                 \o From1(i + 1)
    IN  From1(1)

\* lines 336-349: for dir in dirs, under a name pattern
SearchDir ==
    /\ pc = "dirs"
    /\ args.command = CMD_SEARCH
    /\ LET name == cur.dirs[pos]
           found == ~HiddenName(name) /\ re_search(args.pattern, name) # <<>>
       IN  /\ results_names' = IF found
                               THEN Append(results_names, Slash(cur.root, name) \o <<"/">>)
                               ELSE results_names
           /\ out' = IF found THEN Append(out, Line("dirname", cur.root, name, <<>>, 0))
                     ELSE out
    /\ Advance
    /\ UNCHANGED <<args, fs0, fs, cwd, output_file, spinning, stack, cur, pass,
                   results, results_contents, results_sizes, walked, last, fn_in, fn_out, spinvars>>

\* lines 352-395: for file in files
SearchFile ==
    /\ pc = "files"
    /\ args.command = CMD_SEARCH
    /\ LET name == cur.files[pos]
           full_path == Slash(cur.root, name)
           namePattern == args.pattern
           contentPattern == args.options[1]
           skipped == \/ HiddenName(name)
                      \/ namePattern # <<>> /\ re_search(namePattern, name) = <<>>
           named == namePattern # <<>>
           readable == IsFile(fs, Resolve(cwd, full_path))
           lines == IF readable THEN fs[Resolve(cwd, full_path)].lines ELSE <<>>
           hitSet == IF contentPattern # <<>> THEN HitLines(contentPattern, lines) ELSE {}
           hits == Cardinality(hitSet)
           nameOut == IF named THEN <<Line("filename", cur.root, name, <<>>, 0)>> ELSE <<>>
           headOut == IF ~named /\ hits > 0
                      THEN <<Line("header", cur.root, name, <<>>, 0)>> ELSE <<>>
       IN  IF skipped
           THEN UNCHANGED <<results_names, results_contents, out>>
           ELSE /\ results_names' = IF named THEN Append(results_names, full_path)
                                    ELSE results_names
                /\ IF contentPattern # <<>> /\ ~readable
                   THEN /\ out' = out \o nameOut
                                      \o print_error(Line("error", cur.root, name, <<>>, 0))
                        /\ UNCHANGED results_contents
                   ELSE /\ out' = out \o nameOut \o headOut
                                      \o HitOutput(cur.root, name, lines, hitSet)
                        /\ results_contents' =
                               IF named \/ hits > 0
                               THEN Put(results_contents, full_path, hits)
                               ELSE results_contents
    /\ Advance
    /\ UNCHANGED <<args, fs0, fs, cwd, output_file, spinning, stack, cur, pass,
                   results, results_sizes, walked, last, fn_in, fn_out, spinvars>>

\* line 398: the Summary table of search
SearchSummary ==
    [searched |-> results.count,
     filesWithHits |-> Cardinality(DOMAIN results_contents),
     names |-> Len(results_names),
     hits |-> SumOf(results_contents, DOMAIN results_contents)]

\* lines 418-436: for dir in dirs; the count is kept only when no pattern is given
ListDir ==
    /\ pc = "dirs"
    /\ args.command = CMD_LIST
    /\ LET name == cur.dirs[pos]
           listed == /\ ~HiddenName(name)
                     /\ args.pattern # <<>> => re_search(args.pattern, name) # <<>>
       IN  /\ out' = IF listed THEN Append(out, Line("dir", cur.root, name, <<>>, 0)) ELSE out
           /\ results' = IF listed /\ args.pattern = <<>>
                         THEN [results EXCEPT !.directories = @ + 1] ELSE results
    /\ Advance
    /\ UNCHANGED <<args, fs0, fs, cwd, output_file, spinning, stack, cur, pass,
                   results_names, results_contents, results_sizes, walked, last,
                   fn_in, fn_out, spinvars>>

\* lines 439-459: for file in files
ListFile ==
    /\ pc = "files"
    /\ args.command = CMD_LIST
    /\ LET name == cur.files[pos]
           listed == /\ ~HiddenName(name)
                     /\ args.pattern # <<>> => re_search(args.pattern, name) # <<>>
       IN  /\ out' = IF listed THEN Append(out, Line("file", cur.root, name, <<>>, 0)) ELSE out
           /\ results' = IF listed THEN [results EXCEPT !.files = @ + 1] ELSE results
    /\ Advance
    /\ UNCHANGED <<args, fs0, fs, cwd, output_file, spinning, stack, cur, pass,
                   results_names, results_contents, results_sizes, walked, last,
                   fn_in, fn_out, spinvars>>

\* lines 481-488: rootSize += results_sizes.get(f'{root}/{dir}', 0)
Size1Dir ==
    /\ pc = "dirs"
    /\ args.command = CMD_SIZE
    /\ pass = 1
    /\ LET name == cur.dirs[pos]
       IN  results' = IF HiddenName(name) THEN results
                      ELSE [results EXCEPT
                               !.rootSize = @ + Get(results_sizes, Slash(cur.root, name))]
    /\ Advance
    /\ UNCHANGED <<args, fs0, fs, cwd, output_file, spinning, stack, cur, pass,
                   results_names, results_contents, results_sizes, out, walked, last,
                   fn_in, fn_out, spinvars>>

\* lines 490-504: os.path.getsize of every file
Size1File ==
    /\ pc = "files"
    /\ args.command = CMD_SIZE
    /\ pass = 1
    /\ LET name == cur.files[pos]
           full_path == Slash(cur.root, name)
           p == Resolve(cwd, full_path)
       IN  IF HiddenName(name)
           THEN UNCHANGED <<results, results_sizes, out>>
           ELSE IF Exists(fs, p)
           THEN /\ results' = [results EXCEPT !.rootSize = @ + fs[p].size]
                /\ results_sizes' = Put(results_sizes, full_path, fs[p].size)
                /\ out' = out \o print_info(Line("info", cur.root, name, <<>>,
                                                 results.rootSize + fs[p].size))
           ELSE /\ out' = out \o print_error(Line("error", cur.root, name, <<>>, 0))
                /\ UNCHANGED <<results, results_sizes>>
    /\ Advance
    /\ UNCHANGED <<args, fs0, fs, cwd, output_file, spinning, stack, cur, pass,
                   results_names, results_contents, walked, last, fn_in, fn_out, spinvars>>

\* lines 506-508: results_sizes[root] = rootSize; the first loop never breaks
Size1Root ==
    /\ pc = "end"
    /\ ~topdown
    /\ results_sizes' = Put(results_sizes, cur.root, results.rootSize)
    /\ out' = out \o print_info(Line("info", cur.root, <<>>, <<>>, results.rootSize))
    /\ pc' = "walk"
    /\ UNCHANGED <<args, fs0, fs, cwd, output_file, spinning, stack, cur, pos, pass,
                   results, results_names, results_contents, walked, last, fn_in, fn_out, spinvars>>

\* lines 520-532 and 534-547: the second loop prints what the first recorded
Size2Entry ==
    /\ pc \in {"dirs", "files"}
    /\ args.command = CMD_SIZE
    /\ pass = 2
    /\ LET name == IF pc = "dirs" THEN cur.dirs[pos] ELSE cur.files[pos]
           full_path == Slash(cur.root, name)
           shown == /\ ~HiddenName(name)
                    /\ args.pattern # <<>> => re_search(args.pattern, name) # <<>>
       IN  out' = IF shown
                  THEN Append(out, Line(IF pc = "dirs" THEN "dirsize" ELSE "filesize",
                                        cur.root, name, <<>>, Get(results_sizes, full_path)))
                  ELSE out
    /\ Advance
    /\ UNCHANGED <<args, fs0, fs, cwd, output_file, spinning, stack, cur, pass,
                   results, results_names, results_contents, results_sizes, walked, last,
                   fn_in, fn_out, spinvars>>

(***************************************************************************)
(* rename, delete, copy, move                                              *)
(***************************************************************************)
\* the name the closure is called with, and whether it came from dirs
ItemName == IF pc = "dirs" THEN cur.dirs[pos] ELSE cur.files[pos]
ItemIsDir == pc = "dirs"

\* the closure returned False before touching anything (hidden or no match)
Unmatched(name) == HiddenName(name) \/ re_search(args.pattern, name) = <<>>

Outcome(op, name, from, to, st, counted, existed, into) ==
    [op |-> op, name |-> name, is_dir |-> ItemIsDir, from |-> from, to |-> to,
     st |-> st, counted |-> counted, existed |-> existed, into |-> into]

\* results_directories += 1 or results_files += 1
Count(counted) ==
    IF ~counted THEN results
    ELSE IF ItemIsDir THEN [results EXCEPT !.directories = @ + 1]
    ELSE [results EXCEPT !.files = @ + 1]

\* lines 576-602: rename(old_name, new_name), for dir in dirs and for file in files
Rename ==
    /\ pc \in {"dirs", "files"}
    /\ args.command = CMD_RENAME
    /\ LET name == ItemName
           match_obj == re_search(args.pattern, name)
           sub == regex_sub(match_obj, args.options[1], INT_MAX_STR_DIGITS)
           old_path == Slash(cur.root, name)
           new_path == Slash(cur.root, sub.s)
           src == Resolve(cwd, old_path)
           dst == Resolve(cwd, new_path)
       IN  IF Unmatched(name)
           THEN /\ Advance
                /\ UNCHANGED <<fs, out, results, last>>
           ELSE IF sub.raised
           THEN /\ pc' = "crash"
                /\ UNCHANGED <<fs, out, results, last, pos>>
           ELSE \E posix \in BOOLEAN :
                LET r == os_rename(fs, src, dst, posix)
                IN  /\ fs' = r.fs
                    /\ out' = IF r.st = "ok"
                              THEN Append(out, Line("renamed", cur.root, name, new_path, 0))
                              ELSE out \o print_error(Line("error", cur.root, name, new_path, 0))
                    /\ results' = Count(r.st = "ok")
                    /\ last' = Outcome("rename", name, old_path, new_path, r.st, r.st = "ok",
                                       Exists(fs, dst) /\ dst # src, FALSE)
                    /\ Advance
    /\ UNCHANGED <<args, fs0, cwd, output_file, spinning, stack, cur, pass,
                   results_names, results_contents, results_sizes, walked, fn_in, fn_out, spinvars>>

\* the print_info lines of the inner os.walk(full_path, topdown=False) of delete
RECURSIVE DeleteLog(_, _, _)
DeleteLog(f, p, sub_root) ==
    LET dirs == scandir_dirs(f, p)
        files == scandir_files(f, p)
        RECURSIVE Below(_)
        Below(i) ==
            IF i > Len(dirs) THEN <<>>
            ELSE DeleteLog(f, p \o <<dirs[i]>>, join(sub_root, dirs[i])) \o Below(i + 1)
    IN  Below(1)
        \o [i \in 1..Len(files) |-> Line("subdeleted", sub_root, files[i], <<>>, 0)]
        \o [i \in 1..Len(dirs) |-> Line("subdeleted", sub_root, dirs[i], <<>>, 0)]

\* lines 626-659: delete(name, directory); every exception is caught
Delete ==
    /\ pc \in {"dirs", "files"}
    /\ args.command = CMD_DELETE
    /\ LET name == ItemName
           full_path == Slash(cur.root, name)
           p == Resolve(cwd, full_path)
           ok == IF ItemIsDir THEN IsDir(fs, p) ELSE IsFile(fs, p)
       IN  IF Unmatched(name)
           THEN UNCHANGED <<fs, out, results, last>>
           ELSE /\ fs' = IF ok THEN Without(fs, p) ELSE fs
                /\ out' = IF ok
                          THEN out
                               \o (IF ItemIsDir /\ args.verbose
                                   THEN DeleteLog(fs, p, full_path) ELSE <<>>)
                               \o <<Line("deleted", cur.root, name, <<>>, 0)>>
                          ELSE out \o print_error(Line("error", cur.root, name, <<>>, 0))
                /\ results' = Count(ok)
                /\ last' = Outcome("delete", name, full_path, <<>>,
                                   IF ok THEN "ok" ELSE "OSError", ok, FALSE, FALSE)
    /\ Advance
    /\ UNCHANGED <<args, fs0, cwd, output_file, spinning, stack, cur, pass,
                   results_names, results_contents, results_sizes, walked, fn_in, fn_out, spinvars>>

\* the name appended whenever the destination is a directory, files included
Destination_Append(name, destination, is_dir) ==
    IF endswith(destination, <<"/">>) THEN destination \o name
    ELSE IF IsDir(fs, Resolve(cwd, destination)) THEN destination \o <<"/">> \o name
    ELSE destination

\* lines 705-711 and 774-780: the destination a matched name is sent to
Destination(name, destination, is_dir) ==
    IF ~is_dir /\ endswith(destination, <<"/">>) THEN destination \o name
    ELSE IF is_dir /\ IsDir(fs, Resolve(cwd, destination))
    THEN IF endswith(destination, <<"/">>) THEN destination \o name
         ELSE destination \o <<"/">> \o name
    ELSE destination

\* what is left of move_item once the library call returned or raised:
\* shutil.Error is caught and reported, any other exception ends the process
MoveItemEnds(op, name, from_path, to_path, r, existed) ==
    /\ fs' = r.fs
    /\ last' = Outcome(op, name, from_path, to_path, r.st, r.st = "ok", existed,
                       IsDir(fs, Resolve(cwd, args.options[1])))
    /\ results' = Count(r.st = "ok")
    /\ out' = IF r.st = "ok"
              THEN Append(out, Line(op, cur.root, name, to_path, 0))
              ELSE IF r.st = "Error"
              THEN out \o print_error(Line("error", cur.root, name, to_path, 0))
              ELSE out
    /\ IF r.st = "OSError" THEN pc' = "crash" /\ pos' = pos ELSE Advance

\* lines 694-728: move_item of copy
Copy ==
    /\ pc \in {"dirs", "files"}
    /\ args.command = CMD_COPY
    /\ LET name == ItemName
           match_obj == re_search(args.pattern, name)
           from_path == Slash(cur.root, name)
           sub == regex_sub(match_obj, Destination(name, args.options[1], ItemIsDir),
                            INT_MAX_STR_DIGITS)
           to_path == sub.s
           src == Resolve(cwd, from_path)
           dst == Resolve(cwd, to_path)
       IN  IF Unmatched(name)
           THEN /\ Advance
                /\ UNCHANGED <<fs, out, results, last>>
           ELSE IF sub.raised
           THEN /\ pc' = "crash"
                /\ UNCHANGED <<fs, out, results, last, pos>>
           ELSE MoveItemEnds("copied", name, from_path, to_path,
                             IF ItemIsDir THEN shutil_copytree(fs, src, dst)
                             ELSE shutil_copy2(fs, src, dst),
                             Exists(fs, dst))
    /\ UNCHANGED <<args, fs0, cwd, output_file, spinning, stack, cur, pass,
                   results_names, results_contents, results_sizes, walked, fn_in, fn_out, spinvars>>

\* lines 763-790: move_item of move
Move ==
    /\ pc \in {"dirs", "files"}
    /\ args.command = CMD_MOVE
    /\ LET name == ItemName
           match_obj == re_search(args.pattern, name)
           from_path == Slash(cur.root, name)
           sub == regex_sub(match_obj, Destination(name, args.options[1], ItemIsDir),
                            INT_MAX_STR_DIGITS)
           to_path == sub.s
           src == Resolve(cwd, from_path)
           dst == Resolve(cwd, to_path)
       IN  IF Unmatched(name)
           THEN /\ Advance
                /\ UNCHANGED <<fs, out, results, last>>
           ELSE IF sub.raised
           THEN /\ pc' = "crash"
                /\ UNCHANGED <<fs, out, results, last, pos>>
           ELSE \E posix \in BOOLEAN :
                    MoveItemEnds("moved", name, from_path, to_path,
                                 shutil_move(fs, src, dst, posix), Exists(fs, dst))
    /\ UNCHANGED <<args, fs0, cwd, output_file, spinning, stack, cur, pass,
                   results_names, results_contents, results_sizes, walked, fn_in, fn_out, spinvars>>

(***************************************************************************)
(* One run of the program                                                  *)
(***************************************************************************)
Next ==
    \/ CheckPattern
    \/ CheckDirectory
    \/ OpenOutput
    \/ SpinnerStart
    \/ CheckOptions
    \/ WalkSkip
    \/ WalkDescend
    \/ WalkYield
    \/ WalkDone
    \/ EndEntry
    \/ SearchDir
    \/ SearchFile
    \/ ListDir
    \/ ListFile
    \/ Size1Dir
    \/ Size1File
    \/ Size1Root
    \/ Size2Entry
    \/ Rename
    \/ Delete
    \/ Copy
    \/ Move
    \/ SpinnerStop
    \/ PrintSummary

Spec == Init /\ [][Next]_vars

(***************************************************************************)
(* regex_sub on its own: a match object and a template are drawn, the      *)
(* function is applied once                                                *)
(***************************************************************************)
MaxPieces == 3     \* a template is made of at most this many pieces

\* the match of (a)(bc) in abc, of (a)(x)?(bc) in abc, and of a in a
SubMatches ==
    {<<Grp(<<"a", "b", "c">>), Grp(<<"a">>), Grp(<<"b", "c">>)>>,
     <<Grp(<<"a", "b", "c">>), Grp(<<"a">>), NoGrp, Grp(<<"b", "c">>)>>,
     <<Grp(<<"a">>)>>}

\* whole tokens, plain text, and the fragments a token can be put together from
TokenPieces ==
    {<<"$", "(", "0", ")">>, <<"$", "(", "1", ")">>, <<"$", "(", "2", ")">>,
     <<"$", "(", "9", ")">>, <<"$", "(", "0", "2", ")">>}
PlainPieces == {<<"X">>, <<"(", "1", ")">>, <<")">>}
FragmentPieces == {<<"$", "(">>, <<"1", ")">>, <<"$">>}

Templates ==
    {<<>>} \cup UNION {[1..n -> TokenPieces \cup PlainPieces \cup FragmentPieces] :
                         n \in 1..MaxPieces}

\* the example of the documentation: X$(1)-$(2)Y with the groups abc, a, bc
ExampleSub ==
    [m |-> <<Grp(<<"a", "b", "c">>), Grp(<<"a">>), Grp(<<"b", "c">>)>>,
     pieces |-> <<<<"X">>, <<"$", "(", "1", ")">>, <<"-">>,
                  <<"$", "(", "2", ")">>, <<"Y">>>>]

\* a token whose index has one digit more than the interpreter converts
LongToken == <<"$", "(">> \o [i \in 1..(INT_MAX_STR_DIGITS + 1) |-> "9"] \o <<")">>

SubInputs ==
    [m : SubMatches, pieces : Templates \cup {<<LongToken>>}] \cup {ExampleSub}

\* no command line: the function is applied outside any run
NoArgs ==
    [command |-> CMD_LIST, options |-> <<>>, pattern |-> <<>>, directory |-> <<".">>,
     output |-> <<>>, recursive |-> FALSE, hidden |-> FALSE, verbose |-> FALSE]

InitSub ==
    /\ fn_in \in SubInputs
    /\ fn_out = [done |-> FALSE, raised |-> FALSE, s |-> <<>>]
    /\ args = NoArgs
    /\ fs0 = Tree
    /\ fs = Tree
    /\ cwd = Chain(0)
    /\ pc = "idle"
    /\ output_file = FALSE
    /\ spinning = FALSE
    /\ stack = <<>>
    /\ cur = NoEntry
    /\ pos = 0
    /\ pass = 1
    /\ results = NoResults
    /\ results_names = <<>>
    /\ results_contents = EmptyMap
    /\ results_sizes = EmptyMap
    /\ out = <<>>
    /\ walked = <<>>
    /\ last = NoLast
    /\ IdleSpinner

\* regex_sub(match_obj, text), on an interpreter with or without the limit
ApplySub ==
    /\ pc = "idle"
    /\ ~fn_out.done
    /\ \E max_str_digits \in MaxStrDigitsSettings :
           LET r == regex_sub(fn_in.m, Concat(fn_in.pieces), max_str_digits)
           IN  fn_out' = [done |-> TRUE, raised |-> r.raised, s |-> r.s]
    /\ UNCHANGED <<fn_in, runvars, spinvars>>

NextSub == ApplySub

SpecSub == InitSub /\ [][NextSub]_vars

(***************************************************************************)
(* fix_path on its own: a path is drawn, the function is applied to it and *)
(* to its own result                                                       *)
(***************************************************************************)
MaxPathLen == 4    \* a path has at most this many characters

PathChars == {"a", "/", "\\"}

PathInputs == UNION {[1..n -> PathChars] : n \in 0..MaxPathLen}

\* no run of main is under way: every variable of a run keeps its first value
IdleRun ==
    /\ args = NoArgs
    /\ fs0 = Tree
    /\ fs = Tree
    /\ cwd = Chain(0)
    /\ output_file = FALSE
    /\ spinning = FALSE
    /\ stack = <<>>
    /\ cur = NoEntry
    /\ pos = 0
    /\ pass = 1
    /\ results = NoResults
    /\ results_names = <<>>
    /\ results_contents = EmptyMap
    /\ results_sizes = EmptyMap
    /\ out = <<>>
    /\ walked = <<>>
    /\ last = NoLast

InitFix ==
    /\ fn_in \in PathInputs
    /\ fn_out = [done |-> FALSE, once |-> <<>>, twice |-> <<>>]
    /\ pc = "fix"
    /\ IdleRun
    /\ IdleSpinner

\* fix_path(path) and fix_path(fix_path(path))
ApplyFix ==
    /\ pc = "fix"
    /\ ~fn_out.done
    /\ fn_out' = [done |-> TRUE, once |-> fix_path(fn_in),
                  twice |-> fix_path(fix_path(fn_in))]
    /\ UNCHANGED <<fn_in, runvars, spinvars>>

NextFix == ApplyFix

SpecFix == InitFix /\ [][NextFix]_vars

(***************************************************************************)
(* The Spinner and the foreground prints: the main thread and the thread   *)
(* that runs Spinner._spin, interleaved statement by statement.  stdout is *)
(* a terminal, so it is line buffered and every print call reaches it as   *)
(* one write.                                                              *)
(***************************************************************************)
MaxPrints == 2     \* foreground lines printed while the spinner runs

\* lines 223-238
spinnerMessage(command) ==
    IF command = CMD_SEARCH THEN <<"S", "e", "a", "r", "c", "h", "i", "n", "g", ".", ".", ".">>
    ELSE IF command = CMD_LIST THEN <<"L", "i", "s", "t", "i", "n", "g", ".", ".", ".">>
    ELSE IF command = CMD_SIZE THEN <<"S", "i", "z", "i", "n", "g", ".", ".", ".">>
    ELSE IF command = CMD_RENAME THEN <<"R", "e", "n", "a", "m", "i", "n", "g", ".", ".", ".">>
    ELSE IF command = CMD_DELETE THEN <<"D", "e", "l", "e", "t", "i", "n", "g", ".", ".", ".">>
    ELSE IF command = CMD_COPY THEN <<"C", "o", "p", "y", "i", "n", "g", ".", ".", ".">>
    ELSE <<"M", "o", "v", "i", "n", "g", ".", ".", ".">>

chars == <<"|", "/", "-", "\\">>

Spaces(n) == [i \in 1..n |-> " "]

\* text written at column 0 over what the line holds
Overwrite(line, text) ==
    IF Len(text) >= Len(line) THEN text
    ELSE text \o SubSeq(line, Len(text) + 1, Len(line))

\* print(text, end='\r'): the cursor goes back to column 0 of the same line
WriteCR(text) == [term EXCEPT !.line = Overwrite(@, text)]

\* print(text): the line is finished
WriteLine(text, by) ==
    [lines |-> Append(term.lines, [shown |-> Overwrite(term.line, text),
                                   text |-> text, by |-> by]),
     line |-> <<>>]

\* Spinner.clear: '\r', len(message) + 5 blanks, '\r'
ClearText(message) == Spaces(Len(message) + 5)

\* the frame _spin prints
Frame(message) == <<" ", chars[spin_idx + 1], " ">> \o message

Blank(line) == \A i \in 1..Len(line) : line[i] = " "

\* what the foreground prints: a result line, a verbose line
Messages == {<<".", "/", "a">>, <<"S", "e", "a", "r", "c", "h", "i", "n", "g", " ", "\"", ".", "\"">>}

\* a diagnostic of the option checks, e.g. line 403 (45 characters; only its
\* length is kept)
Diagnostic == [i \in 1..45 |-> "D"]

SummaryLine == <<"+", "-", "-", "+">>

InitSpin ==
    /\ args \in {[NoArgs EXCEPT !.command = c] : c \in COMMANDS}
    /\ fs0 = Tree
    /\ fs = Tree
    /\ cwd = Chain(0)
    /\ pc = "start"
    /\ output_file = FALSE
    /\ spinning = FALSE
    /\ stack = <<>>
    /\ cur = NoEntry
    /\ pos = 0
    /\ pass = 1
    /\ results = NoResults
    /\ results_names = <<>>
    /\ results_contents = EmptyMap
    /\ results_sizes = EmptyMap
    /\ out = <<>>
    /\ walked = <<>>
    /\ last = NoLast
    /\ fn_in = <<>>
    /\ fn_out = <<>>
    /\ IdleSpinner

\* what the spinner specification leaves alone
restvars == <<args, fs0, fs, cwd, output_file, stack, cur, pos, pass, results,
              results_names, results_contents, results_sizes, out, walked, last, fn_out>>

\* lines 32-36: Spinner.start
Start ==
    /\ pc = "start"
    /\ spinning' = TRUE
    /\ thread' = "while"
    /\ pc' = "fg"
    /\ UNCHANGED <<restvars, fn_in, spin_idx, term, hist>>

\* lines 245-246: print_safe reaches spinner.clear()
PrintSafeClear ==
    /\ pc = "fg"
    /\ hist.prints < MaxPrints
    /\ \E m \in Messages : fn_in' = m
    /\ term' = WriteCR(ClearText(spinnerMessage(args.command)))
    /\ hist' = [hist EXCEPT !.prints = @ + 1]
    /\ pc' = "print"
    /\ UNCHANGED <<restvars, spinning, thread, spin_idx>>

\* line 247: print(message)
PrintSafePrint ==
    /\ pc = "print"
    /\ term' = WriteLine(fn_in, "print_safe")
    /\ pc' = "fg"
    /\ UNCHANGED <<restvars, fn_in, spinning, thread, spin_idx, hist>>

\* lines 301-316, 402-404, ...: a diagnostic is printed with print, not with
\* print_safe, and sys.exit(1) ends the process and its daemon thread
DiagnosticExit ==
    /\ pc = "fg"
    /\ hist.prints = 0
    /\ term' = WriteLine(Diagnostic, "diagnostic")
    /\ pc' = "exit"
    /\ thread' = "killed"
    /\ UNCHANGED <<restvars, fn_in, spinning, spin_idx, hist>>

\* line 39: self.running = False
StopFlag ==
    /\ pc = "fg"
    /\ spinning' = FALSE
    /\ pc' = "join"
    /\ UNCHANGED <<restvars, fn_in, thread, spin_idx, term, hist>>

\* thread.join() without waiting for the thread
Join_NoWait ==
    /\ pc = "join"
    /\ pc' = "clear"
    /\ UNCHANGED <<restvars, fn_in, spinning, thread, spin_idx, term, hist>>

\* lines 40-41: if self.thread: self.thread.join()
Join ==
    /\ pc = "join"
    /\ thread = "ended"
    /\ pc' = "clear"
    /\ UNCHANGED <<restvars, fn_in, spinning, thread, spin_idx, term, hist>>

\* line 42: self.clear(), and stop returns
StopClear ==
    /\ pc = "clear"
    /\ term' = WriteCR(ClearText(spinnerMessage(args.command)))
    /\ pc' = "summary"
    /\ UNCHANGED <<restvars, fn_in, spinning, thread, spin_idx, hist>>

\* lines 813-815: print_summary prints the table
Summary ==
    /\ pc = "summary"
    /\ term' = WriteLine(SummaryLine, "summary")
    /\ pc' = "done"
    /\ UNCHANGED <<restvars, fn_in, spinning, thread, spin_idx, hist>>

\* line 49: while self.running
SpinWhile ==
    /\ thread = "while"
    /\ thread' = IF spinning THEN "print" ELSE "ended"
    /\ UNCHANGED <<restvars, fn_in, pc, spinning, spin_idx, term, hist>>

\* lines 50-51: the frame is printed, idx += 1
SpinPrint ==
    /\ thread = "print"
    /\ term' = WriteCR(Frame(spinnerMessage(args.command)))
    /\ spin_idx' = (spin_idx + 1) % Len(chars)
    /\ hist' = [hist EXCEPT !.frame_in_print_safe = @ \/ pc = "print",
                            !.frame_after_stop = @ \/ pc \in {"summary", "done"}]
    /\ thread' = "sleep"
    /\ UNCHANGED <<restvars, fn_in, pc, spinning>>

\* line 52: time.sleep(0.1)
SpinSleep ==
    /\ thread = "sleep"
    /\ thread' = "while"
    /\ UNCHANGED <<restvars, fn_in, pc, spinning, spin_idx, term, hist>>

MainThread ==
    \/ Start
    \/ PrintSafeClear
    \/ PrintSafePrint
    \/ DiagnosticExit
    \/ StopFlag
    \/ Join
    \/ StopClear
    \/ Summary

SpinThread ==
    \/ SpinWhile
    \/ SpinPrint
    \/ SpinSleep

NextSpin == MainThread \/ SpinThread

\* both threads are scheduled again and again
SpecSpin == InitSpin /\ [][NextSpin]_vars /\ WF_vars(MainThread) /\ WF_vars(SpinThread)

(***************************************************************************)
(* print_output on its own, writing to the terminal (output_file is None): *)
(* a format string, a match, the colours and a terminal width are drawn    *)
(***************************************************************************)
MaxWidth == 15     \* widest terminal
MaxBefore == 14    \* longest text in front of the placeholder

\* lines 18-23; "ESC" stands for the one character \033
MATCH_COLOR == <<"ESC", "[", "3", "3", "m">>
INFO_COLOR == <<"ESC", "[", "9", "0", "m">>
RESET_COLOR == <<"ESC", "[", "0", "m">>

Letters == <<"a", "b", "c", "d", "e", "f", "g", "h", "i", "j", "k", "l", "m", "n",
             "o", "p", "q", "r", "s", "t", "u", "v", "w", "x", "y", "z">>

\* get_terminal_width(): terminals wide enough for both colour codes and '...'
Widths == (3 + Len(MATCH_COLOR) + Len(INFO_COLOR))..MaxWidth

\* formatted_string is before + '{}' + after when it has a placeholder
\* (lines 349, 369, 383, 388), before + after when it has none (lines 426,
\* 435, 452, 458, 532, 547, 591, 655, 727, 789)
OutInputs ==
    [before : {SubSeq(Letters, 1, n) : n \in 0..MaxBefore},
     placeholder : BOOLEAN,
     after : {<<>>, <<"/">>},
     match : {<<>>, <<"M">>, <<"M", "N">>},
     wrapColor : {RESET_COLOR, INFO_COLOR},
     term_width : Widths]

formatted(in) == in.before \o (IF in.placeholder THEN <<"{", "}">> ELSE <<>>) \o in.after

\* str.format with one argument, for a string with at most one '{}'
format(formatted_string, arg) == Replace(formatted_string, <<"{", "}">>, arg)

\* s[:n] of Python
Slice(s, n) ==
    IF n >= 0 THEN SubSeq(s, 1, IF n < Len(s) THEN n ELSE Len(s))
    ELSE SubSeq(s, 1, IF Len(s) + n > 0 THEN Len(s) + n ELSE 0)

\* lines 249-268 with output_file None: what is handed to print_safe, or
\* ValueError when str.index finds no '{}'
print_output(formatted_string, match, color, wrapColor, term_width) ==
    LET message == format(formatted_string, color \o match \o wrapColor)
        at == Find(<<"{", "}">>, formatted_string)
        dots == <<".", ".", ".">>
    IN  IF Len(message) > term_width
        THEN IF at = 0 THEN [raised |-> TRUE, line |-> <<>>]
             ELSE IF at - 1 < term_width - 3
             THEN [raised |-> FALSE,
                   line |-> wrapColor
                            \o Slice(message, term_width - 3 - Len(color) - Len(wrapColor))
                            \o dots \o RESET_COLOR]
             ELSE [raised |-> FALSE,
                   line |-> wrapColor \o Slice(message, term_width - 3) \o dots
                            \o RESET_COLOR]
        ELSE [raised |-> FALSE, line |-> wrapColor \o message \o RESET_COLOR]

InitOut ==
    /\ fn_in \in OutInputs
    /\ fn_out = [done |-> FALSE, raised |-> FALSE, line |-> <<>>]
    /\ pc = "out"
    /\ IdleRun
    /\ IdleSpinner

ApplyOut ==
    /\ pc = "out"
    /\ ~fn_out.done
    /\ LET r == print_output(formatted(fn_in), fn_in.match, MATCH_COLOR,
                             fn_in.wrapColor, fn_in.term_width)
       IN  fn_out' = [done |-> TRUE, raised |-> r.raised, line |-> r.line]
    /\ UNCHANGED <<fn_in, runvars, spinvars>>

NextOut == ApplyOut

SpecOut == InitOut /\ [][NextOut]_vars

(***************************************************************************)
(* Properties                                                              *)
(***************************************************************************)
Finished == pc \in {"stop", "summary", "done"}

\* the lines of out of the kinds in K
LinesOf(K) == {i \in 1..Len(out) : out[i].k \in K}

\* C1: every fatal pre-flight condition ends the process before any traversal
\* step and before any side effect: at exit no file has been created or
\* truncated (the -o file included) and nothing was renamed, deleted, copied or moved.
C1_ExitBeforeSideEffect ==
    pc = "exit" => fs = fs0 /\ walked = <<>> /\ out = <<>>

\* C2: in copy and move a filesystem failure on one matched entry is not fatal:
\* the entry is not counted and the walk goes on to the summary.
C2_FailureNotFatal ==
    args.command \in {CMD_COPY, CMD_MOVE} =>
        /\ pc # "crash"
        /\ last.st # "ok" => ~last.counted

\* the sizes the first loop of size has to record for the directory it yielded
\* as raw root r: its direct files plus what was recorded for its sub-directories
RecordedBelow(raw) ==
    LET p == Resolve(cwd, raw)
        files == {n \in ChildNames(fs, p) : IsFile(fs, p \o <<n>>) /\ ~HiddenName(n)}
        dirs == {n \in ChildNames(fs, p) : IsDir(fs, p \o <<n>>) /\ ~HiddenName(n)}
        sizeOf == [n \in files \cup dirs |->
                      IF n \in files THEN fs[p \o <<n>>].size
                      ELSE Get(results_sizes, fix_path(join(raw, n)))]
    IN  SumOf(sizeOf, files \cup dirs)

\* C5: after the bottom-up loop of size every visited directory's recorded size
\* is the sum of its direct files' sizes and of the sizes recorded for its child
\* directories, for any accepted form of the root path.
C5_SizeIsSumOfChildren ==
    (args.command = CMD_SIZE /\ pass = 2) =>
        \A i \in 1..Len(walked) :
            (walked[i].pass = 1 /\ walked[i].body) =>
                Get(results_sizes, walked[i].root) = RecordedBelow(walked[i].raw)

\* C6: a rename whose new path already exists is a failure: the existing entry
\* is not replaced and the rename is not counted.
C6_CollisionIsFailure ==
    (last.op = "rename" /\ last.existed) => (last.st # "ok" /\ ~last.counted)

\* C8: in list the Directory Count is the number of directory lines printed and
\* the File Count the number of file lines printed, with and without a pattern.
C8_ListCounts ==
    (args.command = CMD_LIST /\ pc = "done") =>
        /\ results.directories = Cardinality(LinesOf({"dir"}))
        /\ results.files = Cardinality(LinesOf({"file"}))

\* C9: in search the count of files with at least one match is the number of
\* scanned files in which a line matched the content pattern, and the hit count
\* the number of matching lines printed, with and without a name pattern.
C9_SearchCounts ==
    (args.command = CMD_SEARCH /\ pc = "done") =>
        /\ SearchSummary.filesWithHits =
               Cardinality({<<out[i].root, out[i].name>> : i \in LinesOf({"hit"})})
        /\ SearchSummary.hits = Cardinality(LinesOf({"hit"}))

\* what a piece of a template stands for: a token for its group (nothing when
\* the group is out of range or took no part), any other piece for itself
PieceValue(m, piece) ==
    IF piece \in TokenPieces \cup {LongToken}
    THEN LET k == int_of(SubSeq(piece, 3, Len(piece) - 1), 0).v
         IN  IF k + 1 <= Len(m) /\ m[k + 1].p THEN m[k + 1].s ELSE <<>>
    ELSE piece

\* C10: regex_sub replaces every token $(k) by capture group k and leaves all
\* other text unchanged; a token whose group is out of range or did not
\* participate becomes the empty string, and nothing is raised.
C10_Substitute ==
    fn_out.done =>
        /\ ~fn_out.raised
        /\ (\A i \in 1..Len(fn_in.pieces) : fn_in.pieces[i] \notin FragmentPieces) =>
               fn_out.s = Concat([i \in 1..Len(fn_in.pieces) |->
                                     PieceValue(fn_in.m, fn_in.pieces[i])])
        /\ fn_in = ExampleSub => fn_out.s = <<"X", "a", "-", "b", "c", "Y">>

\* a canonical path with a segment that starts with '.'
HiddenSeg(p) == \E i \in 1..Len(p) : startswith(p[i], <<".">>)

\* the file -o names, if any
IsOutputPath(p) == args.output # <<>> /\ p = Resolve(cwd, args.output)

\* the hidden paths of fs0 that are gone or changed, and those that are new
\* (the -o file, which the walk does not make, left aside)
HiddenLost == {p \in DOMAIN fs0 : HiddenSeg(p) /\ (p \notin DOMAIN fs \/ fs[p] # fs0[p])}
HiddenNew == {p \in DOMAIN fs : HiddenSeg(p) /\ p \notin DOMAIN fs0 /\ ~IsOutputPath(p)}

\* C3, as claimed: with includeHidden=false no entry whose name starts with '.'
\* and no entry beneath a hidden directory is emitted, counted or mutated, also
\* not through the recursive removal, copy or move of a matched directory.
C3_HiddenNeverTouched ==
    ~args.hidden =>
        /\ \A i \in 1..Len(out) :
               ~startswith(out[i].name, <<".">>) /\ ~Contains(<<"/", ".">>, out[i].root)
        /\ last.op # "" => ~startswith(last.name, <<".">>)
        /\ args.command \in {CMD_DELETE, CMD_COPY, CMD_MOVE} =>
               HiddenLost = {} /\ HiddenNew = {}

\* C3, amended: with includeHidden=false no hidden name and no entry of a
\* hidden root is printed as a result, counted or handed to rename, delete or
\* move_item; a hidden entry changes only as part of the tree of a matched,
\* non-hidden directory that was renamed, deleted, copied or moved (delete
\* reports it in verbose mode).  With includeHidden=true hidden entries are listed.
C3_HiddenOnlyWithMatchedParent ==
    /\ ~args.hidden =>
        /\ \A i \in 1..Len(out) :
               out[i].k # "subdeleted" =>
                   ~startswith(out[i].name, <<".">>) /\ ~Contains(<<"/", ".">>, out[i].root)
        /\ last.op # "" =>
               ~startswith(last.name, <<".">>) /\ ~Contains(<<"/", ".">>, last.from)
        /\ \A p \in HiddenLost :
               \E i \in LinesOf({"deleted", "moved", "renamed"}) :
                   IsPrefix(Resolve(cwd, Slash(out[i].root, out[i].name)), p)
        /\ \A p \in HiddenNew :
               \E i \in LinesOf({"copied", "moved", "renamed"}) :
                   IsPrefix(Resolve(cwd, out[i].to), p)
    /\ (/\ args.hidden
        /\ args.command = CMD_LIST
        /\ args.pattern = <<>>
        /\ args.recursive
        /\ pc = "done") =>
           Cardinality(LinesOf({"dir", "file"})) =
               Cardinality({p \in DOMAIN fs :
                               IsPrefix(Resolve(cwd, args.directory), p)
                               /\ p # Resolve(cwd, args.directory)})

\* a recursive delete without -a took a hidden file away with its matched directory
C3_Witness ==
    /\ ~args.hidden
    /\ args.command = CMD_DELETE
    /\ pc = "done"
    /\ HiddenLost # {}
    /\ results.directories = 1

\* C4, as claimed: with recursive=false the walk of every handler yields exactly
\* one WalkEntry, the root, and then ends.
C4_OneWalkEntry ==
    ~args.recursive =>
        \A k \in {1, 2} : Cardinality({i \in 1..Len(walked) : walked[i].pass = k}) <= 1

\* C4, amended: with recursive=false the loop that prints, counts or changes
\* entries runs its body for at most one WalkEntry, the root, and every result
\* line and every rename, delete, copy or move is about a direct entry of the
\* root; the first loop of size still walks the whole tree, and a matched
\* directory is deleted or copied with all that is below it.
C4_OneLevelProcessed ==
    ~args.recursive =>
        /\ Cardinality({i \in 1..Len(walked) :
               walked[i].body /\ (args.command = CMD_SIZE => walked[i].pass = 2)}) <= 1
        /\ \A i \in 1..Len(out) :
               \/ out[i].k = "subdeleted"
               \/ args.command = CMD_SIZE /\ out[i].k \in {"info", "error"}
               \/ out[i].root = fix_path(args.directory)
        /\ last.op # "" => last.from = Slash(fix_path(args.directory), last.name)

\* a size run without -r that walked the tree below the root and printed one level
C4_Witness ==
    /\ ~args.recursive
    /\ args.command = CMD_SIZE
    /\ pc = "done"
    /\ Len(walked) > 2
    /\ LinesOf({"dirsize"}) # {}

\* C7, as claimed: when the destination is an existing directory given without
\* a trailing separator, the resolved and reported destination of a matched
\* entry is the destination with the entry's name appended.
C7_NameAppended ==
    (/\ last.op \in {"copied", "moved"}
     /\ last.st = "ok"
     /\ last.into
     /\ ~endswith(args.options[1], <<"/">>)) =>
        last.to = args.options[1] \o <<"/">> \o last.name

\* C7, amended: for a matched directory the resolved and reported destination
\* is the destination with the name appended; for a matched file it is the
\* destination itself, and it is shutil.copy2 / shutil.move that put the file
\* under its own name into that directory.
C7_FileLandsInDirectory ==
    (/\ last.op \in {"copied", "moved"}
     /\ last.st = "ok"
     /\ last.into
     /\ ~endswith(args.options[1], <<"/">>)) =>
        IF last.is_dir
        THEN /\ last.to = args.options[1] \o <<"/">> \o last.name
             /\ IsDir(fs, Resolve(cwd, last.to))
        ELSE /\ last.to = args.options[1]
             /\ IsFile(fs, Resolve(cwd, last.to) \o <<last.name>>)
             /\ last.op = "copied" =>
                    fs[Resolve(cwd, last.to) \o <<last.name>>] = fs[Resolve(cwd, last.from)]
             /\ last.op = "moved" => ~Exists(fs, Resolve(cwd, last.from))

\* file a copied to the existing directory t: reported as t, written as t/a
C7_Witness ==
    /\ last.op = "copied"
    /\ ~last.is_dir
    /\ last.st = "ok"
    /\ last.into
    /\ last.to = <<"t">>
    /\ IsFile(fs, Resolve(cwd, <<"t", "/", "a">>))

\* C11: fix_path is idempotent, and its result holds no backslash and no '//',
\* also for three or more separators in a row and for mixed runs.
C11_FixPathIdempotent ==
    fn_out.done =>
        /\ fn_out.twice = fn_out.once
        /\ ~Contains(<<"\\">>, fn_out.once)
        /\ ~Contains(<<"/", "/">>, fn_out.once)

\* the line as it shows once the blanks at its end are taken off
RECURSIVE Stripped(_)
Stripped(line) ==
    IF line # <<>> /\ line[Len(line)] = " " THEN Stripped(SubSeq(line, 1, Len(line) - 1))
    ELSE line

\* C12: stop() ends the thread, waits until it has finished, then blanks the
\* line and returns: once stop has returned the thread writes nothing more, the
\* line is blank, every line of the summary shows as printed, and a stop that
\* was called does return.
C12_StopWaits ==
    /\ [](/\ pc \in {"clear", "summary", "done"} => thread = "ended"
          /\ ~hist.frame_after_stop
          /\ pc = "summary" => Blank(term.line)
          /\ \A i \in 1..Len(term.lines) :
                 term.lines[i].by = "summary" =>
                     Stripped(term.lines[i].shown) = Stripped(term.lines[i].text))
    /\ (pc = "join") ~> (pc = "done")

\* stop was called while a frame was on the line, and the summary is out
C12_Witness ==
    /\ pc = "done"
    /\ spin_idx > 1
    /\ hist.prints = MaxPrints
    /\ term.lines[Len(term.lines)].by = "summary"

\* C13: while the spinner runs no frame is written between the erase and the
\* write of a foreground print, and no printed line shares its terminal line
\* with a frame.
C13_NoSharedLine ==
    /\ ~hist.frame_in_print_safe
    /\ \A i \in 1..Len(term.lines) :
           term.lines[i].by \in {"print_safe", "diagnostic"} =>
               Stripped(term.lines[i].shown) = Stripped(term.lines[i].text)

\* what a terminal shows of a line: the colour codes take no room
RECURSIVE Visible(_)
Visible(line) ==
    IF line = <<>> THEN <<>>
    ELSE IF \E c \in {MATCH_COLOR, INFO_COLOR, RESET_COLOR} : startswith(line, c)
    THEN LET c == CHOOSE c \in {MATCH_COLOR, INFO_COLOR, RESET_COLOR} : startswith(line, c)
         IN  Visible(From(line, Len(c) + 1))
    ELSE <<line[1]>> \o Visible(Tail(line))

\* the visible text of the whole result line
WholeLine(in) == in.before \o (IF in.placeholder THEN in.match ELSE <<>>) \o in.after

\* C14: print_output truncates a line exactly when its visible length exceeds
\* the terminal width, the truncated line is the first width-3 visible
\* characters and '...', and what is printed is never wider than the terminal.
C14_Truncation ==
    fn_out.done =>
        /\ ~fn_out.raised
        /\ Visible(fn_out.line) =
               IF Len(WholeLine(fn_in)) > fn_in.term_width
               THEN SubSeq(WholeLine(fn_in), 1, fn_in.term_width - 3) \o <<".", ".", ".">>
               ELSE WholeLine(fn_in)
        /\ Len(Visible(fn_out.line)) <= fn_in.term_width

\* the entry a printed rename, delete, copy or move was about, and where a
\* rename or a move has put it (a move into a directory keeps the name)
Subject(i) == Resolve(cwd, Slash(out[i].root, out[i].name))

Landed(i) ==
    IF out[i].k = "renamed" THEN {Resolve(cwd, out[i].to)}
    ELSE IF out[i].k = "moved"
    THEN {Resolve(cwd, out[i].to), Resolve(cwd, out[i].to) \o <<out[i].name>>}
    ELSE {}

\* C15: in one rename, delete, move or copy run no entry is operated on and
\* counted more than once: no operation is about an entry that an earlier
\* operation of the run has renamed, removed or moved.
C15_OperatedOnce ==
    \A i, j \in LinesOf({"renamed", "deleted", "copied", "moved"}) :
        i < j => Subject(j) # Subject(i) /\ Subject(j) \notin Landed(i)

\* the entries of the loop that starts at the root (for size the second loop)
TopDownEntries == {i \in 1..Len(walked) : args.command = CMD_SIZE => walked[i].pass = 2}

\* C16: the directory every handler walks is the directory that passed the
\* existence check: the first WalkEntry is the validated directory itself, for
\* a relative and for an absolute -d argument.
C16_WalksValidatedDirectory ==
    pc = "done" =>
        /\ TopDownEntries # {}
        /\ LET first == CHOOSE i \in TopDownEntries : \A j \in TopDownEntries : i <= j
           IN  Resolve(cwd, walked[first].raw) = Resolve(Chain(0), args.directory)

\* the entries of the initial tree below the walked directory that rename has
\* to deal with: the name matches the pattern and, without -a, neither the
\* name nor a directory on the way to it is hidden
ToRename(f) ==
    LET top == Resolve(cwd, args.directory)
    IN  {p \in DOMAIN f :
            /\ IsPrefix(top, p) /\ p # top
            /\ args.hidden \/ ~HiddenSeg(SubSeq(p, Len(top) + 1, Len(p)))
            /\ re_search(args.pattern, p[Len(p)]) # <<>>}

\* C17: after a recursive rename in which no rename failed, every entry of the
\* initial tree whose name matches has been renamed, those inside a renamed
\* directory too: the two counters add up to their number and no matching name
\* is left.
C17_AllMatchesRenamed ==
    (/\ args.command = CMD_RENAME
     /\ args.recursive
     /\ args.verbose
     /\ args.hidden \/ ~HiddenSeg(Resolve(cwd, args.directory))
     /\ pc = "done"
     /\ LinesOf({"error"}) = {}) =>
        /\ results.directories + results.files = Cardinality(ToRename(fs0))
        /\ ToRename(fs) = {}

====
